---- MODULE Spec2Model ----
(***************************************************************************)
(* Model of scripts/build_catalog.py: the workbook -> songs.json /         *)
(* latest.json build step with its strict versioning gate.                 *)
(*                                                                         *)
(* Strings are sequences of tokens.  A token is a letter, a digit, a       *)
(* whitespace character (" " or "\n") or, for header and key names, a      *)
(* whole name ("songId").  A cell is None or a string.                     *)
(***************************************************************************)
EXTENDS Integers, Sequences, FiniteSets, TLC

\* ------------------------------------------------------------------ bounds
MaxRows == 4        \* data rows read from the workbook in one run (all sheets)
MaxRuns == 3        \* runs of main() in one publish history

\* --------------------------------------------------------------- constants
PreviewLen == 120

\* ----------------------------------------------------------------- strings
Whitespace == {" ", "\n"}

\* code point order of the tokens that occur in ids and terms
Alphabet == <<"\n", " ", "0", "1", "2", "3", "B", "D", "T", "a", "b", "c", "d", "e", "t", "u", "x", "y">>

Ord(c) == CHOOSE i \in 1..Len(Alphabet) : Alphabet[i] = c

RECURSIVE StrLess(_, _)
StrLess(s, t) ==
    IF t = <<>> THEN FALSE
    ELSE IF s = <<>> THEN TRUE
    ELSE IF Head(s) = Head(t) THEN StrLess(Tail(s), Tail(t))
    ELSE Ord(Head(s)) < Ord(Head(t))

RECURSIVE LStrip(_)
LStrip(s) == IF s # <<>> /\ Head(s) \in Whitespace THEN LStrip(Tail(s)) ELSE s

RECURSIVE RStrip(_)
RStrip(s) ==
    IF s # <<>> /\ s[Len(s)] \in Whitespace THEN RStrip(SubSeq(s, 1, Len(s) - 1)) ELSE s

\* str.strip()
Strip(s) == RStrip(LStrip(s))

LowerTok(c) ==
    CASE c = "B" -> "b" [] c = "D" -> "d" [] c = "T" -> "t"
      [] c = "TRUE" -> "true" [] c = "On" -> "on" [] OTHER -> c

\* str.lower()
Lower(s) == [i \in 1..Len(s) |-> LowerTok(s[i])]

\* str.replace("\n", " ")
ReplaceNewline(s) == [i \in 1..Len(s) |-> IF s[i] = "\n" THEN " " ELSE s[i]]

\* s[:n]
Prefix(s, n) == SubSeq(s, 1, IF Len(s) < n THEN Len(s) ELSE n)

\* insertion of a string into a sorted sequence of strings
RECURSIVE InsertSorted(_, _)
InsertSorted(x, sq) ==
    IF sq = <<>> THEN <<x>>
    ELSE IF StrLess(x, Head(sq)) THEN <<x>> \o sq
    ELSE <<Head(sq)>> \o InsertSorted(x, Tail(sq))

\* sorted(set_of_strings)
RECURSIVE Sorted(_)
Sorted(S) ==
    IF S = {} THEN <<>>
    ELSE LET x == CHOOSE y \in S : TRUE IN InsertSorted(x, Sorted(S \ {x}))

Range(sq) == {sq[i] : i \in 1..Len(sq)}

\* ------------------------------------------------------------------- cells
None == [none |-> TRUE, s |-> <<>>]
Str(s) == [none |-> FALSE, s |-> s]
Name(k) == <<k>>

\* Cell value -> trimmed string, None -> ''
_s(v) == IF v.none THEN <<>> ELSE Strip(v.s)

\* variant: the empty string is kept instead of becoming None
_opt_keep(cell) == Str(_s(cell))

\* Optional string: '' -> None
_opt(cell) == LET t == _s(cell) IN IF t # <<>> THEN Str(t) ELSE None

\* first row -> header name -> 1-based column index; a later duplicate wins
sheet_headers(first) ==
    LET names == {_s(first[i]) : i \in 1..Len(first)} \ {<<>>}
    IN [n \in names |-> CHOOSE i \in 1..Len(first) :
            /\ _s(first[i]) = n
            /\ \A j \in 1..Len(first) : _s(first[j]) = n => j <= i]

get_cell(row, headers, name) ==
    IF name \notin DOMAIN headers THEN None
    ELSE IF headers[name] > Len(row) THEN None
    ELSE row[headers[name]]

\* all(_s(c) == "" for c in row)
IsBlankRow(row) == \A i \in 1..Len(row) : _s(row[i]) = <<>>

\* int(str): decimal digits only
Digits == {"0", "1", "2", "3"}
IsInt(s) == s # <<>> /\ \A i \in 1..Len(s) : s[i] \in Digits
DigitVal(c) == CASE c = "0" -> 0 [] c = "1" -> 1 [] c = "2" -> 2 [] c = "3" -> 3
RECURSIVE IntOf(_)
IntOf(s) == IF s = <<>> THEN 0 ELSE 10 * IntOf(SubSeq(s, 1, Len(s) - 1)) + DigitVal(s[Len(s)])

\* ----------------------------------------------------------------- errors
NoErr == [sheet |-> "", kind |-> "", hasId |-> FALSE, id |-> <<>>, hasRow |-> FALSE, row |-> 0]
Err(sheet, kind) == [NoErr EXCEPT !.sheet = sheet, !.kind = kind]
ErrId(sheet, kind, id) == [Err(sheet, kind) EXCEPT !.hasId = TRUE, !.id = id]
ErrIdRow(sheet, kind, id, r) == [ErrId(sheet, kind, id) EXCEPT !.hasRow = TRUE, !.row = r]

\* ------------------------------------------------------------ dictionaries
\* a dict with string keys is a function; d.setdefault(k, v) / d[k] = v
DictGet(d, k, dflt) == IF k \in DOMAIN d THEN d[k] ELSE dflt
DictSet(d, k, v) == [x \in DOMAIN d \cup {k} |-> IF x = k THEN v ELSE d[x]]
EmptyDict == [x \in {} |-> {}]

\* ---------------------------------------------------------- row validators
\* The song record keeps the required fields and the two nested lists; the
\* remaining optional scalar and list fields of the record take no part in
\* any check of the script and are left out.
build_song_dict(row, h) ==
    LET song_id == _s(get_cell(row, h, Name("id")))
        title == _s(get_cell(row, h, Name("title")))
        hub == _s(get_cell(row, h, Name("hub")))
        lyrics == _s(get_cell(row, h, Name("lyrics")))
        song == [id |-> song_id, title |-> title, hub |-> hub, lyrics |-> lyrics,
                 glossary |-> <<>>, versions |-> <<>>]
    IN  IF song_id = <<>> THEN [ok |-> FALSE, err |-> Err("songs", "empty_id"), song |-> song]
        ELSE IF title = <<>> THEN [ok |-> FALSE, err |-> ErrId("songs", "empty_title", song_id), song |-> song]
        ELSE IF hub = <<>> THEN [ok |-> FALSE, err |-> ErrId("songs", "empty_hub", song_id), song |-> song]
        ELSE IF lyrics = <<>> THEN [ok |-> FALSE, err |-> ErrId("songs", "empty_lyrics", song_id), song |-> song]
        ELSE [ok |-> TRUE, err |-> NoErr, song |-> song]

OptKeys == {"title", "lyrics", "sourceNote", "audioUrl", "minusUrl", "videoUrl"}

build_version_dict(row, h) ==
    LET song_id == _s(get_cell(row, h, Name("songId")))
        ver_id == _s(get_cell(row, h, Name("id")))
        keys == {k \in OptKeys : ~_opt(get_cell(row, h, Name(k))).none}
        ver == [k \in {"id"} \cup keys |->
                    IF k = "id" THEN ver_id ELSE _opt(get_cell(row, h, Name(k))).s]
    IN  IF song_id = <<>> THEN [ok |-> FALSE, err |-> Err("versions", "empty_songId"), song_id |-> song_id, ver |-> ver]
        ELSE IF ver_id = <<>> THEN [ok |-> FALSE, err |-> ErrId("versions", "empty_id", song_id), song_id |-> song_id, ver |-> ver]
        ELSE [ok |-> TRUE, err |-> NoErr, song_id |-> song_id, ver |-> ver]

build_glossary_item(row, h) ==
    LET song_id == _s(get_cell(row, h, Name("songId")))
        term == _s(get_cell(row, h, Name("term")))
        definition == _s(get_cell(row, h, Name("definition")))
        item == [term |-> term, definition |-> definition]
    IN  IF song_id = <<>> THEN [ok |-> FALSE, err |-> Err("glossary", "empty_songId"), song_id |-> song_id, item |-> item]
        ELSE IF term = <<>> THEN [ok |-> FALSE, err |-> ErrId("glossary", "empty_term", song_id), song_id |-> song_id, item |-> item]
        ELSE IF definition = <<>> THEN [ok |-> FALSE, err |-> ErrId("glossary", "empty_definition", song_id), song_id |-> song_id, item |-> item]
        ELSE [ok |-> TRUE, err |-> NoErr, song_id |-> song_id, item |-> item]

\* read_meta: rows of (key, value) cells; a later key overwrites an earlier one
RECURSIVE read_meta(_)
read_meta(rows) ==
    IF rows = <<>> THEN EmptyDict
    ELSE LET n == Len(rows)
             before == read_meta(SubSeq(rows, 1, n - 1))
             key == _s(rows[n][1])
             val == IF Len(rows[n]) > 1 THEN _s(rows[n][2]) ELSE <<>>
         IN IF key # <<>> THEN DictSet(before, key, val) ELSE before

\* --------------------------------------------------- songs_by_id (ordered)
\* songs_by_id is a dict in insertion order: a sequence of song records
SongIds(sbi) == {sbi[i].id : i \in 1..Len(sbi)}
SongIdx(sbi, id) == CHOOSE i \in 1..Len(sbi) : sbi[i].id = id

\* variant: the record goes to the first song, whatever song_id is
AppendVersion_first(sbi, song_id, ver) ==
    [sbi EXCEPT ![1].versions = Append(@, ver)]

\* songs_by_id[song_id]["versions"].append(ver)
AppendVersion(sbi, song_id, ver) ==
    [sbi EXCEPT ![SongIdx(sbi, song_id)].versions = Append(@, ver)]

\* songs_by_id[song_id]["glossary"].append(item)
AppendGlossary(sbi, song_id, item) ==
    [sbi EXCEPT ![SongIdx(sbi, song_id)].glossary = Append(@, item)]

\* variant: the songs are left in the order of the sheet rows
StableOrder_unsorted(sbi) == sbi

\* [songs_by_id[k] for k in sorted(songs_by_id.keys())]
StableOrder(sbi) ==
    LET keys == Sorted(SongIds(sbi))
    IN [i \in 1..Len(keys) |-> sbi[SongIdx(sbi, keys[i])]]

\* term_defs_global.setdefault(term_norm, {}).setdefault(def_norm, []).append(song_id)
\* both dict levels keep insertion order: sequences of entries
AddDef(defs, def_norm, song_id) ==
    IF \E i \in 1..Len(defs) : defs[i].defn = def_norm
    THEN LET i == CHOOSE j \in 1..Len(defs) : defs[j].defn = def_norm
         IN [defs EXCEPT ![i].song_ids = Append(@, song_id)]
    ELSE Append(defs, [defn |-> def_norm, song_ids |-> <<song_id>>])

AddTermDef(tdg, term_norm, def_norm, song_id) ==
    IF \E i \in 1..Len(tdg) : tdg[i].term = term_norm
    THEN LET i == CHOOSE j \in 1..Len(tdg) : tdg[j].term = term_norm
         IN [tdg EXCEPT ![i].defs = AddDef(@, def_norm, song_id)]
    ELSE Append(tdg, [term |-> term_norm, defs |-> AddDef(<<>>, def_norm, song_id)])

\* one warning block: the header line and one line per definition
WarnBlock(entry) ==
    [kind |-> "term", term |-> entry.term, n |-> Len(entry.defs),
     uses |-> [i \in 1..Len(entry.defs) |->
                  [song_ids |-> Sorted(Range(entry.defs[i].song_ids)),
                   preview |-> Prefix(ReplaceNewline(entry.defs[i].defn), PreviewLen)]]]

\* variant: a block for every term, also when all its definitions agree
RECURSIVE TermWarnings_all(_)
TermWarnings_all(tdg) ==
    IF tdg = <<>> THEN <<>>
    ELSE <<WarnBlock(Head(tdg))>> \o TermWarnings_all(Tail(tdg))

\* for term_norm, defs_map in term_defs_global.items(): if len(defs_map) > 1: _warn(...)
RECURSIVE TermWarnings(_)
TermWarnings(tdg) ==
    IF tdg = <<>> THEN <<>>
    ELSE (IF Len(Head(tdg).defs) > 1 THEN <<WarnBlock(Head(tdg))>> ELSE <<>>)
         \o TermWarnings(Tail(tdg))

\* -------------------------------------------------------------- serializer
\* File contents.  fmt tells how the bytes are laid out: "canon" is the
\* layout json.dumps(obj, ensure_ascii=False, indent=2) writes, "crlf" the
\* same document with other line endings, "garbage" is not JSON.
NoBytes == [fmt |-> "none", obj |-> <<>>]
Dumps(obj) == [fmt |-> "canon", obj |-> obj]
Loads(bytes) == [ok |-> bytes.fmt \in {"canon", "crlf"}, obj |-> bytes.obj]
_sha256_bytes(data) == data

\* a file is absent (<<>>) or holds bytes (<<bytes>>)
Absent == <<>>
File(bytes) == <<bytes>>
EmptyFs == [dist_songs |-> Absent, dist_latest |-> Absent,
            docs_songs |-> Absent, docs_latest |-> Absent]

SONGS_URL == "https://aleyakim.github.io/istoki-catalog/songs.json"

Manifest(version, now, url) ==
    [catalogVersion |-> version, publishedAt |-> now, songsUrl |-> SONGS_URL,
     baseMediaUrl |-> url]

\* ------------------------------------------------------------ publish guard
\* os.getenv("STRICT_VERSIONING", "").strip().lower() in ("1", "true", "yes", "on")
StrictOf(env) ==
    Lower(_s(env)) \in {Name("1"), Name("true"), Name("yes"), Name("on")}

\* lines 294-299: the old manifest, its version and its trimmed baseMediaUrl
OldManifest(old_latest_bytes) ==
    LET m == Loads(old_latest_bytes)
    IN [ok |-> m.ok,
        old_version |-> IF m.ok /\ "catalogVersion" \in DOMAIN m.obj
                        THEN m.obj["catalogVersion"] ELSE 0,
        old_base_media_url |-> IF m.ok /\ "baseMediaUrl" \in DOMAIN m.obj
                               THEN Strip(m.obj["baseMediaUrl"]) ELSE <<>>]

\* variant: the old bytes are compared as they are, without re-serializing
SongsChanged_raw(old_songs, new_bytes) ==
    IF old_songs = Absent THEN FALSE
    ELSE _sha256_bytes(old_songs[1]) # _sha256_bytes(new_bytes)

\* lines 301-309
SongsChanged(old_songs, new_bytes) ==
    IF old_songs = Absent THEN FALSE
    ELSE LET old_obj == Loads(old_songs[1])
             old_norm_bytes == Dumps(old_obj.obj)
         IN _sha256_bytes(old_norm_bytes) # _sha256_bytes(new_bytes)

\* variant: the baseMediaUrl is left out of the comparison
BaseMediaChanged_never(old_base_media_url, url) == FALSE

\* line 311
BaseMediaChanged(old_base_media_url, url) == old_base_media_url # Strip(url)

\* variant: an equal version counts as bumped
NotBumped_lt(songs_changed, base_media_changed, version, old_version) ==
    (songs_changed \/ base_media_changed) /\ version < old_version

\* variant: only a change of both the songs and the baseMediaUrl is gated
NotBumped_both(songs_changed, base_media_changed, version, old_version) ==
    (songs_changed /\ base_media_changed) /\ version <= old_version

\* line 313
NotBumped(songs_changed, base_media_changed, version, old_version) ==
    (songs_changed \/ base_media_changed) /\ version <= old_version

\* lines 293-324: the error the gate ends the run with, NoErr when it lets
\* the run through
Gate(is_strict, files, new_bytes, version, url) ==
    IF ~(is_strict /\ files.docs_latest # Absent) THEN NoErr
    ELSE LET old == OldManifest(files.docs_latest[1])
         IN IF ~old.ok THEN Err("", "strict_latest_unparseable")
            ELSE IF files.docs_songs # Absent /\ ~Loads(files.docs_songs[1]).ok
                 THEN Err("", "strict_songs_unparseable")
            ELSE IF NotBumped(SongsChanged(files.docs_songs, new_bytes),
                              BaseMediaChanged(old.old_base_media_url, url),
                              version, old.old_version)
                 THEN Err("", "strict_not_bumped")
            ELSE NoErr

\* lines 326-348: dist/ files written, then copied to docs/
WriteOutputs(new_bytes, version, now, url) ==
    LET latest == Dumps(Manifest(version, now, url))
    IN [dist_songs |-> File(new_bytes), dist_latest |-> File(latest),
        docs_songs |-> File(new_bytes), docs_latest |-> File(latest)]

\* variant: the files are written before the gate is evaluated
FilesAfter_early(e, files, new_bytes, version, now, url) ==
    WriteOutputs(new_bytes, version, now, url)

\* the output files when main() returns or exits: the writes come after the
\* gate, so a run the gate ends leaves the files as they were
FilesAfter(e, files, new_bytes, version, now, url) ==
    IF e # NoErr THEN files ELSE WriteOutputs(new_bytes, version, now, url)

\* ------------------------------------------------------------------- state
VARIABLES
    pc,                     \* position of the current run of main()
    catalog_version,        \* int(meta["catalogVersion"])
    base_media_url,         \* meta.get("baseMediaUrl", "").strip()
    hs, hv, hg,             \* header maps of the songs, versions, glossary sheets
    songs_by_id,            \* the songs in insertion order
    row_idx,                \* 1-based number of the sheet row last read
    cur_sheet, cur_row,     \* the sheet and cells of the row last read
    rows_read,              \* data rows read so far in this run
    version_ids_per_song,
    terms_per_song,
    term_defs_global,
    warnings,               \* the warnings printed so far, in order
    new_songs_json_bytes,
    strict,
    error,                  \* the message the run ended with (NoErr if none)
    fs,                     \* the four output files
    fs0,                    \* the output files as the current run found them
    src,                    \* accepted versions/glossary rows, in source order
    hist,                   \* the manifests and catalogs published so far
    runs                    \* number of the current run

vars == <<pc, catalog_version, base_media_url, hs, hv, hg, songs_by_id, row_idx,
          cur_sheet, cur_row, rows_read, version_ids_per_song, terms_per_song,
          term_defs_global, warnings, new_songs_json_bytes, strict, error, fs,
          fs0, src, hist, runs>>

\* ------------------------------------------------------------------ inputs
A == Name("a")
B == Name("b")
Blank == Str(<<" ">>)

Sheets == <<"meta", "songs", "versions", "glossary">>
SheetSets ==
    {Range(Sheets)} \cup {Range(Sheets) \ {Sheets[i]} : i \in 1..Len(Sheets)}

MetaRow(key, cell) == <<Str(Name(key)), cell>>
MetaSheets ==
    {<<MetaRow("catalogVersion", Str(Name("1"))), MetaRow("baseMediaUrl", Str(<<" ", "u">>))>>,
     <<MetaRow("catalogVersion", Str(Name("x")))>>,
     <<MetaRow("baseMediaUrl", Str(Name("u")))>>}

SongsHeaderRows ==
    {<<Str(<<" ", "id">>), Str(Name("title")), Str(Name("hub")), Str(Name("lyrics"))>>,
     <<Str(Name("id")), Str(Name("title")), None, Str(Name("lyrics"))>>}
SongFields ==
    {<<Str(Name("x")), Str(Name("x")), Str(Name("x"))>>,
     <<Str(<<"x", " ">>), Str(Name("x")), Str(<<"y">>)>>,
     <<Blank, Str(Name("x")), Str(Name("x"))>>,
     <<Str(Name("x")), None, Str(Name("x"))>>,
     <<Str(Name("x")), Str(Name("x")), Str(<<>>)>>,
     <<Blank, None, Str(<<>>)>>}
SongRows ==
    {<<i>> \o f : i \in {None, Str(<<" ", "a">>), Str(B)}, f \in SongFields}

VersionsHeaderRows ==
    {<<Str(Name("songId")), Str(Name("id")), Str(Name("title")), Str(Name("audioUrl"))>>,
     <<Str(Name("songId")), Str(Name("id")), Str(Name("lyrics")), Str(Name("videoUrl"))>>,
     <<Str(Name("songId")), Str(Name("title"))>>}
VersionOpts ==
    {<<None, Str(<<>>)>>, <<Blank, Str(Name("y"))>>, <<Str(<<"x", " ">>), Str(<<>>)>>,
     <<Str(Name("x"))>>}
VersionRows ==
    {<<sid, i>> \o o :
        sid \in {None, Str(A), Str(<<"b", " ">>)},
        i \in {Blank, Str(Name("1")), Str(Name("2"))},
        o \in VersionOpts}

GlossaryHeaderRows ==
    {<<Str(Name("songId")), Str(Name("term")), Str(Name("definition"))>>,
     <<Str(Name("songId")), Str(Name("term"))>>}
GlossaryFields ==
    {<<Blank, Str(Name("d"))>>, <<Str(Name("t")), Str(Name("d"))>>,
     <<Str(<<"T", " ">>), Str(<<"e", "\n">>)>>, <<Str(Name("u")), Str(Name("d"))>>,
     <<None, None>>}
GlossaryRows ==
    {<<sid>> \o f : sid \in {None, Str(A), Str(B)}, f \in GlossaryFields}

EnvCells == {None, Str(Name("1")), Str(<<" ", "TRUE">>), Str(Name("0"))}

\* what docs/ may hold when a run starts: nothing, or an earlier publish
Song(id, lyrics) ==
    [id |-> id, title |-> Name("x"), hub |-> Name("x"), lyrics |-> lyrics,
     glossary |-> <<>>, versions |-> <<>>]
CatalogX == <<Song(A, Name("x"))>>
CatalogY == <<Song(A, Name("y"))>>
Published(obj, version, url) ==
    [EmptyFs EXCEPT !.docs_songs = File(Dumps(obj)),
                    !.docs_latest = File(Dumps(Manifest(version, 0, url)))]
Garbage == [fmt |-> "garbage", obj |-> <<>>]
InitFs ==
    {EmptyFs,
     Published(CatalogX, 1, Name("u")),
     [Published(CatalogX, 1, Name("u")) EXCEPT !.docs_songs = File(Garbage)],
     [Published(CatalogX, 1, Name("u")) EXCEPT !.docs_latest = File(Garbage)]}

\* -------------------------------------------------------------------- Init
InitRun ==
    /\ pc = "start"
    /\ catalog_version = 0
    /\ base_media_url = <<>>
    /\ hs = EmptyDict /\ hv = EmptyDict /\ hg = EmptyDict
    /\ songs_by_id = <<>>
    /\ row_idx = 0
    /\ cur_sheet = "" /\ cur_row = <<>>
    /\ rows_read = 0
    /\ version_ids_per_song = EmptyDict
    /\ terms_per_song = EmptyDict
    /\ term_defs_global = <<>>
    /\ warnings = <<>>
    /\ new_songs_json_bytes = NoBytes
    /\ strict = FALSE
    /\ error = NoErr
    /\ src = <<>>

Init ==
    /\ InitRun
    /\ fs \in InitFs
    /\ fs0 = fs
    /\ hist = <<>>
    /\ runs = 1

\* _fail(msg): raise SystemExit
Fail(e) ==
    /\ pc' = "fatal"
    /\ error' = e

\* ----------------------------------------------------------------- actions
\* lines 174-193, the meta sheet drawn from metaSheets
LoadWorkbookFrom(metaSheets) ==
    /\ pc = "start"
    /\ \E exists \in BOOLEAN, sheetnames \in SheetSets, rows \in metaSheets :
        LET missing == {i \in 1..Len(Sheets) : Sheets[i] \notin sheetnames}
            meta == read_meta(rows)
            cv == Name("catalogVersion")
            bmu == Name("baseMediaUrl")
        IN  IF ~exists THEN
                /\ Fail(Err("", "missing_input"))
                /\ UNCHANGED <<catalog_version, base_media_url>>
            ELSE IF missing # {} THEN
                /\ Fail(Err(Sheets[CHOOSE i \in missing : \A j \in missing : i <= j],
                            "missing_sheet"))
                /\ UNCHANGED <<catalog_version, base_media_url>>
            ELSE IF cv \notin DOMAIN meta THEN
                /\ Fail(Err("meta", "missing_catalogVersion"))
                /\ UNCHANGED <<catalog_version, base_media_url>>
            ELSE IF ~IsInt(meta[cv]) THEN
                /\ Fail(Err("meta", "catalogVersion_not_int"))
                /\ UNCHANGED <<catalog_version, base_media_url>>
            ELSE
                /\ catalog_version' = IntOf(meta[cv])
                /\ base_media_url' = Strip(DictGet(meta, bmu, <<>>))
                /\ pc' = "songs_hdr"
                /\ UNCHANGED error
    /\ UNCHANGED <<hs, hv, hg, songs_by_id, row_idx, cur_sheet, cur_row, rows_read,
                   version_ids_per_song, terms_per_song, term_defs_global, warnings,
                   new_songs_json_bytes, strict, fs, fs0, src, hist, runs>>

LoadWorkbook == LoadWorkbookFrom(MetaSheets)

\* lines 196-203
SongsHeader ==
    /\ pc = "songs_hdr"
    /\ \E first \in SongsHeaderRows :
        /\ hs' = sheet_headers(first)
        /\ IF \E col \in {"id", "title", "hub", "lyrics"} : Name(col) \notin DOMAIN hs'
           THEN /\ Fail(Err("songs", "missing_column"))
                /\ UNCHANGED row_idx
           ELSE /\ pc' = "songs"
                /\ row_idx' = 1
                /\ UNCHANGED error
    /\ UNCHANGED <<catalog_version, base_media_url, hv, hg, songs_by_id, cur_sheet,
                   cur_row, rows_read, version_ids_per_song, terms_per_song,
                   term_defs_global, warnings, new_songs_json_bytes, strict, fs,
                   fs0, src, hist, runs>>

\* lines 204-213, one iteration
SongRow ==
    /\ pc = "songs"
    /\ rows_read < MaxRows
    /\ \E row \in SongRows :
        LET r == build_song_dict(row, hs)
        IN  /\ row_idx' = row_idx + 1
            /\ rows_read' = rows_read + 1
            /\ cur_sheet' = "songs"
            /\ cur_row' = row
            /\ IF IsBlankRow(row) THEN UNCHANGED <<pc, error, songs_by_id>>
               ELSE IF ~r.ok THEN Fail(r.err) /\ UNCHANGED songs_by_id
               ELSE IF r.song.id \in SongIds(songs_by_id)
                    THEN /\ Fail(ErrIdRow("songs", "duplicate_id", r.song.id, row_idx'))
                         /\ UNCHANGED songs_by_id
               ELSE /\ songs_by_id' = Append(songs_by_id, r.song)
                    /\ UNCHANGED <<pc, error>>
    /\ UNCHANGED <<catalog_version, base_media_url, hs, hv, hg, version_ids_per_song,
                   terms_per_song, term_defs_global, warnings, new_songs_json_bytes,
                   strict, fs, fs0, src, hist, runs>>

\* lines 215-222
VersionsHeader ==
    /\ pc = "songs"
    /\ IF songs_by_id = <<>>
       THEN /\ Fail(Err("songs", "no_songs"))
            /\ UNCHANGED <<hv, row_idx>>
       ELSE \E first \in VersionsHeaderRows :
            /\ hv' = sheet_headers(first)
            /\ IF Name("songId") \notin DOMAIN hv' \/ Name("id") \notin DOMAIN hv'
               THEN /\ Fail(Err("versions", "missing_column"))
                    /\ UNCHANGED row_idx
               ELSE /\ pc' = "versions"
                    /\ row_idx' = 1
                    /\ UNCHANGED error
    /\ UNCHANGED <<catalog_version, base_media_url, hs, hg, songs_by_id, cur_sheet,
                   cur_row, rows_read, version_ids_per_song, terms_per_song,
                   term_defs_global, warnings, new_songs_json_bytes, strict, fs,
                   fs0, src, hist, runs>>

\* lines 225-238, one iteration
VersionRow ==
    /\ pc = "versions"
    /\ rows_read < MaxRows
    /\ \E row \in VersionRows :
        LET r == build_version_dict(row, hv)
            seen == DictGet(version_ids_per_song, r.song_id, {})
        IN  /\ row_idx' = row_idx + 1
            /\ rows_read' = rows_read + 1
            /\ cur_sheet' = "versions"
            /\ cur_row' = row
            /\ IF IsBlankRow(row)
               THEN UNCHANGED <<pc, error, songs_by_id, version_ids_per_song, src>>
               ELSE IF ~r.ok
                    THEN /\ Fail(r.err)
                         /\ UNCHANGED <<songs_by_id, version_ids_per_song, src>>
               ELSE IF r.song_id \notin SongIds(songs_by_id)
                    THEN /\ Fail(ErrIdRow("versions", "unknown_songId", r.song_id, row_idx'))
                         /\ UNCHANGED <<songs_by_id, version_ids_per_song, src>>
               ELSE IF r.ver["id"] \in seen
                    THEN /\ Fail(ErrIdRow("versions", "duplicate_version_id", r.ver["id"], row_idx'))
                         /\ version_ids_per_song' = DictSet(version_ids_per_song, r.song_id, seen)
                         /\ UNCHANGED <<songs_by_id, src>>
               ELSE /\ version_ids_per_song' =
                            DictSet(version_ids_per_song, r.song_id, seen \cup {r.ver["id"]})
                    /\ songs_by_id' = AppendVersion(songs_by_id, r.song_id, r.ver)
                    /\ src' = Append(src, [sheet |-> "versions", row |-> row_idx',
                                           song_id |-> r.song_id, rec |-> r.ver])
                    /\ UNCHANGED <<pc, error>>
    /\ UNCHANGED <<catalog_version, base_media_url, hs, hv, hg, terms_per_song,
                   term_defs_global, warnings, new_songs_json_bytes, strict, fs,
                   fs0, hist, runs>>

\* lines 241-248
GlossaryHeader ==
    /\ pc = "versions"
    /\ \E first \in GlossaryHeaderRows :
        /\ hg' = sheet_headers(first)
        /\ IF \E col \in {"songId", "term", "definition"} : Name(col) \notin DOMAIN hg'
           THEN /\ Fail(Err("glossary", "missing_column"))
                /\ UNCHANGED row_idx
           ELSE /\ pc' = "glossary"
                /\ row_idx' = 1
                /\ UNCHANGED error
    /\ UNCHANGED <<catalog_version, base_media_url, hs, hv, songs_by_id, cur_sheet,
                   cur_row, rows_read, version_ids_per_song, terms_per_song,
                   term_defs_global, warnings, new_songs_json_bytes, strict, fs,
                   fs0, src, hist, runs>>

\* lines 250-272, one iteration
GlossaryRow ==
    /\ pc = "glossary"
    /\ rows_read < MaxRows
    /\ \E row \in GlossaryRows :
        LET r == build_glossary_item(row, hg)
            seen_terms == DictGet(terms_per_song, r.song_id, {})
            term_norm == Lower(Strip(r.item.term))
            def_norm == Strip(r.item.definition)
        IN  /\ row_idx' = row_idx + 1
            /\ rows_read' = rows_read + 1
            /\ cur_sheet' = "glossary"
            /\ cur_row' = row
            /\ IF IsBlankRow(row)
               THEN UNCHANGED <<pc, error, songs_by_id, terms_per_song, term_defs_global, src>>
               ELSE IF ~r.ok
                    THEN /\ Fail(r.err)
                         /\ UNCHANGED <<songs_by_id, terms_per_song, term_defs_global, src>>
               ELSE IF r.song_id \notin SongIds(songs_by_id)
                    THEN /\ Fail(ErrIdRow("glossary", "unknown_songId", r.song_id, row_idx'))
                         /\ UNCHANGED <<songs_by_id, terms_per_song, term_defs_global, src>>
               ELSE IF term_norm \in seen_terms
                    THEN /\ Fail(ErrIdRow("glossary", "duplicate_term", r.song_id, row_idx'))
                         /\ terms_per_song' = DictSet(terms_per_song, r.song_id, seen_terms)
                         /\ UNCHANGED <<songs_by_id, term_defs_global, src>>
               ELSE /\ terms_per_song' =
                            DictSet(terms_per_song, r.song_id, seen_terms \cup {term_norm})
                    /\ songs_by_id' = AppendGlossary(songs_by_id, r.song_id, r.item)
                    /\ term_defs_global' =
                            AddTermDef(term_defs_global, term_norm, def_norm, r.song_id)
                    /\ src' = Append(src, [sheet |-> "glossary", row |-> row_idx',
                                           song_id |-> r.song_id, rec |-> r.item])
                    /\ UNCHANGED <<pc, error>>
    /\ UNCHANGED <<catalog_version, base_media_url, hs, hv, hg, version_ids_per_song,
                   warnings, new_songs_json_bytes, strict, fs, fs0, hist, runs>>

\* lines 274-285: the warning pass, the stable order and the canonical bytes
Serialize ==
    /\ pc = "glossary"
    /\ warnings' = warnings \o TermWarnings(term_defs_global)
    /\ new_songs_json_bytes' = Dumps(StableOrder(songs_by_id))
    /\ pc' = "guard"
    /\ UNCHANGED <<catalog_version, base_media_url, hs, hv, hg, songs_by_id, row_idx,
                   cur_sheet, cur_row, rows_read, version_ids_per_song,
                   terms_per_song, term_defs_global, strict, error, fs, fs0, src,
                   hist, runs>>

\* lines 288-356: the strict versioning gate, then the writes; publishedAt is
\* the number of the run
Publish ==
    /\ pc = "guard"
    /\ \E env \in EnvCells :
        /\ strict' = StrictOf(env)
        /\ LET e == Gate(strict', fs, new_songs_json_bytes, catalog_version, base_media_url)
           IN /\ fs' = FilesAfter(e, fs, new_songs_json_bytes, catalog_version, runs,
                                  base_media_url)
              /\ IF e # NoErr
                 THEN /\ Fail(e)
                      /\ UNCHANGED <<hist, warnings>>
                 ELSE /\ hist' = Append(hist,
                            [catalogVersion |-> catalog_version,
                             songs |-> new_songs_json_bytes,
                             baseMediaUrl |-> base_media_url,
                             strict |-> strict',
                             fresh |-> fs.docs_latest = Absent /\ fs.docs_songs = Absent])
                      /\ warnings' =
                            IF base_media_url # <<>> THEN warnings
                            ELSE Append(warnings, [kind |-> "baseMediaUrl", term |-> <<>>,
                                                   n |-> 0, uses |-> <<>>])
                      /\ pc' = "done"
                      /\ UNCHANGED error
    /\ UNCHANGED <<catalog_version, base_media_url, hs, hv, hg, songs_by_id, row_idx,
                   cur_sheet, cur_row, rows_read, version_ids_per_song,
                   terms_per_song, term_defs_global, new_songs_json_bytes, fs0, src,
                   runs>>

Next ==
    \/ LoadWorkbook
    \/ SongsHeader
    \/ SongRow
    \/ VersionsHeader
    \/ VersionRow
    \/ GlossaryHeader
    \/ GlossaryRow
    \/ Serialize
    \/ Publish

Spec == Init /\ [][Next]_vars

\* ------------------------------------------------------- publish histories
\* A history of runs over one docs/ directory.  Lines 195-285 of a run are
\* taken by their result: a fatal validation error or the catalog built.
Catalogs == {CatalogX, CatalogY}

BuildSongs ==
    /\ pc = "songs_hdr"
    /\ \/ /\ Fail(Err("songs", "validation"))
          /\ UNCHANGED new_songs_json_bytes
       \/ \E c \in Catalogs :
          /\ new_songs_json_bytes' = Dumps(c)
          /\ pc' = "guard"
          /\ UNCHANGED error
    /\ UNCHANGED <<catalog_version, base_media_url, hs, hv, hg, songs_by_id, row_idx,
                   cur_sheet, cur_row, rows_read, version_ids_per_song,
                   terms_per_song, term_defs_global, warnings, strict, fs, fs0, src,
                   hist, runs>>

\* the next invocation of the script over the same directories
NextRun ==
    /\ pc \in {"done", "fatal"}
    /\ runs < MaxRuns
    /\ runs' = runs + 1
    /\ fs0' = fs
    /\ pc' = "start"
    /\ catalog_version' = 0
    /\ base_media_url' = <<>>
    /\ new_songs_json_bytes' = NoBytes
    /\ strict' = FALSE
    /\ error' = NoErr
    /\ warnings' = <<>>
    /\ UNCHANGED <<hs, hv, hg, songs_by_id, row_idx, cur_sheet, cur_row, rows_read,
                   version_ids_per_song, terms_per_song, term_defs_global, src, fs, hist>>

\* docs/ as a history may find it: empty, or left by an earlier publish whose
\* files were reformatted, removed or damaged outside the script
PubInitFs ==
    {EmptyFs,
     [EmptyFs EXCEPT !.docs_songs = File([fmt |-> "crlf", obj |-> CatalogX]),
                     !.docs_latest = File(Dumps(Manifest(1, 0, <<"u", "\n">>)))],
     [EmptyFs EXCEPT !.docs_latest = File(Dumps(Manifest(2, 0, Name("u"))))],
     [EmptyFs EXCEPT !.docs_songs = File(Dumps(CatalogX)),
                     !.docs_latest = File(Garbage)],
     [EmptyFs EXCEPT !.docs_songs = File(Garbage),
                     !.docs_latest = File(Dumps(Manifest(1, 0, Name("u"))))],
     [EmptyFs EXCEPT !.docs_songs = File(Dumps(CatalogX)),
                     !.docs_latest = File(Dumps([songsUrl |-> SONGS_URL]))]}

PubMetaSheets ==
    {<<MetaRow("catalogVersion", v), MetaRow("baseMediaUrl", u)>> :
        v \in {Str(Name("1")), Str(<<"2", " ">>)},
        u \in {Str(<<" ", "u">>), Str(Name("y"))}}
    \cup {<<MetaRow("catalogVersion", Str(Name("2")))>>,
          <<MetaRow("catalogVersion", Str(Name("x")))>>}

LoadWorkbookPub == LoadWorkbookFrom(PubMetaSheets)

InitPub ==
    /\ InitRun
    /\ fs \in PubInitFs
    /\ fs0 = fs
    /\ hist = <<>>
    /\ runs = 1

NextPub ==
    \/ LoadWorkbookPub
    \/ BuildSongs
    \/ Publish
    \/ NextRun

SpecPub == InitPub /\ [][NextPub]_vars

\* -------------------------------------------------------------- properties
IsBlankCell(c) == c.none \/ \A i \in 1..Len(c.s) : c.s[i] \in Whitespace

\* the gate of the current run has been evaluated
GateRan == pc \in {"done", "fatal"} /\ new_songs_json_bytes # NoBytes

\* the previous publish, as the current run found it
PrevParsed == fs0.docs_latest # Absent /\ fs0.docs_latest[1].fmt # "garbage"
PrevVersion ==
    IF "catalogVersion" \in DOMAIN fs0.docs_latest[1].obj
    THEN fs0.docs_latest[1].obj.catalogVersion ELSE 0
PrevUrl ==
    IF "baseMediaUrl" \in DOMAIN fs0.docs_latest[1].obj
    THEN Strip(fs0.docs_latest[1].obj.baseMediaUrl) ELSE <<>>
PrevSongsParsed == fs0.docs_songs # Absent /\ fs0.docs_songs[1].fmt # "garbage"
PrevSongsDiffer == PrevSongsParsed /\ fs0.docs_songs[1].obj # new_songs_json_bytes.obj
PrevSongsSame == PrevSongsParsed /\ fs0.docs_songs[1].obj = new_songs_json_bytes.obj
UrlDiffers == PrevUrl # Strip(base_media_url)

\* C1: in strict mode with a previous manifest, changed songs or a changed
\* baseMediaUrl under a catalogVersion that is not greater than the old one
\* ends the run fatally and leaves all four output files as they were.
C1_GateBlocksUnbumpedChange ==
    (GateRan /\ strict /\ PrevParsed /\ (PrevSongsDiffer \/ UrlDiffers)
        /\ catalog_version <= PrevVersion)
    => (pc = "fatal" /\ fs = fs0)

C1_Witness ==
    /\ GateRan /\ strict /\ PrevParsed /\ PrevSongsDiffer /\ ~UrlDiffers
    /\ catalog_version = PrevVersion
    /\ pc = "fatal" /\ error.kind = "strict_not_bumped" /\ fs = fs0

\* C2: in strict mode, unchanged songs and an unchanged baseMediaUrl pass the
\* gate whatever the new catalogVersion is, and the outputs are written.
C2_UnchangedAlwaysAccepted ==
    (GateRan /\ strict /\ PrevParsed /\ PrevSongsSame /\ ~UrlDiffers)
    => (pc = "done"
        /\ fs.docs_songs = File(new_songs_json_bytes)
        /\ fs.dist_songs = File(new_songs_json_bytes)
        /\ fs.docs_latest = fs.dist_latest
        /\ fs.docs_latest[1].obj.catalogVersion = catalog_version)

C2_Witness ==
    /\ GateRan /\ strict /\ PrevParsed /\ PrevSongsSame /\ ~UrlDiffers
    /\ catalog_version < PrevVersion
    /\ pc = "done"

\* the history started from an empty docs/ and every publish was strict
HistStrictFromEmpty ==
    /\ hist # <<>>
    /\ hist[1].fresh
    /\ \A i \in 1..Len(hist) : hist[i].strict

HistChanged(i, j) ==
    \/ hist[i].songs # hist[j].songs
    \/ hist[i].baseMediaUrl # hist[j].baseMediaUrl

\* C3: in a history of strict runs from an empty docs/, two consecutive
\* publishes that differ in songs or baseMediaUrl have a strictly greater
\* catalogVersion in the later one.
C3_ConsecutiveChangeBumps ==
    HistStrictFromEmpty =>
        \A i \in 1..(Len(hist) - 1) :
            HistChanged(i, i + 1) => hist[i + 1].catalogVersion > hist[i].catalogVersion

C3_Witness ==
    /\ HistStrictFromEmpty
    /\ Len(hist) >= 2
    /\ hist[1].songs # hist[2].songs
    /\ hist[2].catalogVersion > hist[1].catalogVersion

\* C10 as stated: any two publishes of a strict history with the same
\* catalogVersion carry the same songs and the same baseMediaUrl.
C10_VersionIdentifiesContent ==
    HistStrictFromEmpty =>
        \A i, j \in 1..Len(hist) :
            hist[i].catalogVersion = hist[j].catalogVersion => ~HistChanged(i, j)

NoDecreaseBetween(i, j) ==
    \A k \in i..(j - 1) : hist[k].catalogVersion <= hist[k + 1].catalogVersion

\* C10 amended: two publishes of a strict history with the same catalogVersion
\* carry the same songs and baseMediaUrl when no publish between them lowered
\* the catalogVersion.
C10_VersionIdentifiesContentNoDecrease ==
    HistStrictFromEmpty =>
        \A i, j \in 1..Len(hist) :
            (i < j /\ NoDecreaseBetween(i, j)
                /\ hist[i].catalogVersion = hist[j].catalogVersion)
            => ~HistChanged(i, j)

C10_Witness ==
    /\ HistStrictFromEmpty
    /\ Len(hist) = 3
    /\ NoDecreaseBetween(1, 3)
    /\ hist[1].catalogVersion = hist[3].catalogVersion

\* C4: a run that ends fatally leaves dist/ and docs/ as it found them.
C4_FatalWritesNothing == pc = "fatal" => fs = fs0

C4_Witness ==
    /\ pc = "fatal"
    /\ error.kind = "strict_not_bumped"
    /\ fs0.docs_songs # Absent
    /\ fs = fs0

\* the row last read: its header map and the text of one of its cells
CurHdr == IF cur_sheet = "versions" THEN hv ELSE hg
CurCell(k) == get_cell(cur_row, CurHdr, Name(k))
CurSongId == _s(CurCell("songId"))
CurRequired ==
    IF cur_sheet = "versions" THEN {"songId", "id"} ELSE {"songId", "term", "definition"}

\* the row last read is a non-blank versions or glossary row whose songId is
\* not the id of a song of the songs sheet
Dangling ==
    /\ cur_sheet \in {"versions", "glossary"}
    /\ ~IsBlankRow(cur_row)
    /\ CurSongId \notin SongIds(songs_by_id)

RECURSIVE RecsOf(_, _, _)
RecsOf(rows, sheet, song_id) ==
    IF rows = <<>> THEN <<>>
    ELSE (IF Head(rows).sheet = sheet /\ Head(rows).song_id = song_id
          THEN <<Head(rows).rec>> ELSE <<>>)
         \o RecsOf(Tail(rows), sheet, song_id)

\* the songs of the songs.json the run wrote
Out == fs.docs_songs[1].obj

\* every accepted row is attached to the song its songId names, and to no other
Attached ==
    \A k \in 1..Len(Out) :
        /\ Range(Out[k].versions) = Range(RecsOf(src, "versions", Out[k].id))
        /\ Len(Out[k].versions) = Len(RecsOf(src, "versions", Out[k].id))
        /\ Range(Out[k].glossary) = Range(RecsOf(src, "glossary", Out[k].id))
        /\ Len(Out[k].glossary) = Len(RecsOf(src, "glossary", Out[k].id))

\* C5 as stated: a non-blank versions or glossary row with an unknown songId
\* ends the run fatally with an unknown-songId error.
C5_DanglingRowIsUnknownSongIdError ==
    Dangling => (pc = "fatal" /\ error.kind = "unknown_songId")

\* C5 amended: a run that reads such a row ends fatally at that row, with the
\* unknown-songId error when its required cells are all non-blank and with
\* the sheet's empty-field error otherwise; every version and glossary item of
\* a written songs.json is attached to the song its row's songId names.
C5_DanglingRowIsFatal ==
    /\ Dangling =>
        /\ pc = "fatal"
        /\ error.sheet = cur_sheet
        /\ IF \A k \in CurRequired : ~IsBlankCell(CurCell(k))
           THEN error = ErrIdRow(cur_sheet, "unknown_songId", CurSongId, row_idx)
           ELSE error.kind \in {"empty_songId", "empty_id", "empty_term", "empty_definition"}
    /\ pc = "done" => Attached

C5_Witness ==
    /\ Dangling
    /\ \A k \in CurRequired : ~IsBlankCell(CurCell(k))
    /\ pc = "fatal"
    /\ error.kind = "unknown_songId"
    /\ src # <<>>

RowErrorKinds ==
    {"empty_id", "empty_title", "empty_hub", "empty_lyrics", "duplicate_id",
     "empty_songId", "unknown_songId", "duplicate_version_id", "empty_term",
     "empty_definition", "duplicate_term"}

\* C6: a fatal error raised while validating a data row names the sheet, the
\* offending id when the row has one, and the 1-based number of the row.
C6_RowErrorsNameSheetIdRow ==
    (pc = "fatal" /\ error.kind \in RowErrorKinds) =>
        /\ error.sheet = cur_sheet
        /\ error.hasRow /\ error.row = row_idx
        /\ ~(error.kind = "empty_songId" \/ (error.kind = "empty_id" /\ error.sheet = "songs"))
                => error.hasId

\* the row last read is a versions row whose record was appended
VersionAccepted == cur_sheet = "versions" /\ pc # "fatal" /\ ~IsBlankRow(cur_row)
LastVer ==
    LET song == songs_by_id[SongIdx(songs_by_id, CurSongId)]
    IN song.versions[Len(song.versions)]

\* C7: a version record has an optional key exactly when the row's cell is
\* non-blank after trimming, and then with the trimmed, non-empty text.
C7_OptionalKeyIffNonBlank ==
    VersionAccepted =>
        \A k \in OptKeys :
            /\ k \in DOMAIN LastVer <=> ~IsBlankCell(CurCell(k))
            /\ k \in DOMAIN LastVer => (LastVer[k] # <<>> /\ LastVer[k] = Strip(CurCell(k).s))

C7_Witness ==
    /\ VersionAccepted
    /\ \E k \in OptKeys : ~CurCell(k).none /\ IsBlankCell(CurCell(k)) /\ k \notin DOMAIN LastVer
    /\ \E k \in OptKeys : k \in DOMAIN LastVer /\ CurCell(k).s # LastVer[k]

\* the glossary items read so far and, per normalized term, their definitions
GlossaryItems ==
    UNION {Range(songs_by_id[k].glossary) : k \in 1..Len(songs_by_id)}
NormTerm(item) == Lower(Strip(item.term))
NormTerms == {NormTerm(g) : g \in GlossaryItems}
DefsOf(t) == {g.definition : g \in {x \in GlossaryItems : NormTerm(x) = t}}
BlocksOf(t) == {i \in 1..Len(warnings) : warnings[i].kind = "term" /\ warnings[i].term = t}
WarnPassDone == pc \in {"guard", "done"} \/ (pc = "fatal" /\ new_songs_json_bytes # NoBytes)

\* the glossary row last read is faulty by itself: a blank required cell, an
\* unknown songId, or a term its song already has
GlossaryRowFault ==
    \/ \E k \in {"songId", "term", "definition"} : IsBlankCell(get_cell(cur_row, hg, Name(k)))
    \/ _s(get_cell(cur_row, hg, Name("songId"))) \notin SongIds(songs_by_id)
    \/ \E g \in Range(songs_by_id[SongIdx(songs_by_id, _s(get_cell(cur_row, hg, Name("songId"))))].glossary) :
            NormTerm(g) = Lower(_s(get_cell(cur_row, hg, Name("term"))))

\* C8: a term with different definitions in different songs never ends the
\* run: a glossary row is fatal only for its own fault, after the warning pass
\* only the versioning gate can end the run, and the pass prints exactly one
\* block per term with more than one definition and none for any other term.
C8_TermCollisionsOnlyWarn ==
    /\ (pc = "fatal" /\ error.sheet = "glossary" /\ error.kind # "missing_column")
            => GlossaryRowFault
    /\ (pc = "fatal" /\ WarnPassDone)
            => error.kind \in {"strict_not_bumped", "strict_latest_unparseable",
                               "strict_songs_unparseable"}
    /\ WarnPassDone =>
        /\ \A t \in NormTerms :
                Cardinality(BlocksOf(t)) = IF Cardinality(DefsOf(t)) > 1 THEN 1 ELSE 0
        /\ \A i \in 1..Len(warnings) :
                warnings[i].kind = "term" =>
                    /\ warnings[i].term \in NormTerms
                    /\ warnings[i].n = Cardinality(DefsOf(warnings[i].term))

C8_Witness ==
    /\ pc = "done"
    /\ \E t \in NormTerms : Cardinality(DefsOf(t)) = 2 /\ Cardinality(BlocksOf(t)) = 1

\* C9: the songs of a written songs.json are in strictly increasing order of
\* id whatever the order of the sheet rows, and the versions and glossary of
\* each song are in the order of their source rows.
C9_SongsSortedChildrenInRowOrder ==
    pc = "done" =>
        /\ Len(Out) = Len(songs_by_id)
        /\ {Out[k].id : k \in 1..Len(Out)} = SongIds(songs_by_id)
        /\ \A i, j \in 1..Len(Out) : i < j => StrLess(Out[i].id, Out[j].id)
        /\ \A i, j \in 1..Len(src) :
                (i < j /\ src[i].sheet = src[j].sheet) => src[i].row < src[j].row
        /\ \A k \in 1..Len(Out) :
                /\ Out[k].versions = RecsOf(src, "versions", Out[k].id)
                /\ Out[k].glossary = RecsOf(src, "glossary", Out[k].id)

C9_Witness ==
    /\ pc = "done"
    /\ Len(Out) = 2
    /\ songs_by_id[1].id = B /\ Out[1].id = A /\ Out[2].id = B
    /\ \E k \in 1..2 : Len(Out[k].versions) = 2

====
